---- MODULE Spec2Model ----
(***************************************************************************)
(* Model of src/python/workshop/main.py: the lifecycle of one agent        *)
(* session (initialize, the interactive loop, post_message, cleanup)       *)
(* against the remote agent service.                                       *)
(*                                                                         *)
(* Strings the program inspects (the prompt, the instruction template, the *)
(* schema description, file ids) are sequences of one-character strings,   *)
(* so that strip(), lower() and str.replace() are computed and not         *)
(* assumed.  Every remote call either succeeds or raises.  An exception    *)
(* nothing catches ends the program in pc = "crashed".                     *)
(***************************************************************************)
EXTENDS Integers, Sequences, FiniteSets, TLC

\* ------------------------------------------------------------------ bounds
\* Turns (post_message calls) one run of the program may take.
MaxTurns == 2
\* Function-tool round trips the service may request within one run.
MaxToolCalls == 1

\* ------------------------------------------------------------- text model
None == <<>>

DB_PLACEHOLDER ==
    <<"{","d","a","t","a","b","a","s","e","_","s","c","h","e","m","a","_",
      "s","t","r","i","n","g","}">>

FONT_PLACEHOLDER ==
    <<"{","f","o","n","t","_","f","i","l","e","_","i","d","}">>

\* str.replace(old, new): left to right, non-overlapping, the inserted text
\* is not scanned again.
RECURSIVE ReplaceFrom(_, _, _)
ReplaceFrom(s, old, new) ==
    IF Len(s) < Len(old) THEN s
    ELSE IF SubSeq(s, 1, Len(old)) = old
         THEN new \o ReplaceFrom(SubSeq(s, Len(old) + 1, Len(s)), old, new)
         ELSE <<Head(s)>> \o ReplaceFrom(Tail(s), old, new)

Replace(s, old, new) == ReplaceFrom(s, old, new)

\* Characters str.strip() removes (the ones the inputs below use).
Whitespace == {" ", "\t"}

RECURSIVE LStrip(_, _)
LStrip(s, ws) ==
    IF s # <<>> /\ Head(s) \in ws THEN LStrip(Tail(s), ws) ELSE s

RECURSIVE RStrip(_, _)
RStrip(s, ws) ==
    IF s # <<>> /\ s[Len(s)] \in ws
    THEN RStrip(SubSeq(s, 1, Len(s) - 1), ws)
    ELSE s

\* A strip(" ") in place of strip(): tabs stay.
MutStripSpacesOnly(s) == RStrip(LStrip(s, {" "}), {" "})

\* str.strip(): leading and trailing whitespace removed, inner kept.
Strip(s) == RStrip(LStrip(s, Whitespace), Whitespace)

UpperChars == <<"A","E","H","I","S","T","V","X">>
LowerChars == <<"a","e","h","i","s","t","v","x">>

LowerChar(c) ==
    IF \E i \in 1..Len(UpperChars) : UpperChars[i] = c
    THEN LowerChars[CHOOSE i \in 1..Len(UpperChars) : UpperChars[i] = c]
    ELSE c

\* The lower() of line 184 left out.
MutLowerIdentity(s) == s

\* str.lower(), character by character.
Lower(s) == [i \in 1..Len(s) |-> LowerChar(s[i])]

EXIT == <<"e","x","i","t">>
SAVE == <<"s","a","v","e">>

\* --------------------------------------------------------- configuration
\* Lines 44-47: the lab's four assignments to INSTRUCTIONS_FILE, in order.
InstructionLines ==
    <<"instructions/function_calling.txt",
      "instructions/file_search.txt",
      "instructions/code_interpreter.txt",
      "instructions/code_interpreter_multilingual.txt">>

\* Line 25 sets None; each assignment the lab has enabled then overwrites
\* it, so the last enabled one is the selected template.
SelectedInstructions(enabled) ==
    IF enabled = {} THEN "None"
    ELSE InstructionLines[CHOOSE i \in enabled : \A j \in enabled : j <= i]

\* Config.API_DEPLOYMENT_NAME: unset, or a deployment name.
DeploymentNames == {"", "gpt-4o"}

\* Contents of the instruction files (external data): one per catalog entry.
LoadInstructions(file) ==
    CASE file = InstructionLines[1] -> <<"S", "=">> \o DB_PLACEHOLDER
      [] file = InstructionLines[2] -> DB_PLACEHOLDER \o <<";">> \o DB_PLACEHOLDER
      [] file = InstructionLines[3] -> FONT_PLACEHOLDER \o <<";">> \o DB_PLACEHOLDER
      [] OTHER -> <<"S", "=">> \o DB_PLACEHOLDER \o <<" ", "F", "=">> \o FONT_PLACEHOLDER

\* Values sales_data.get_database_info() may return.
Schemas ==
    { <<"T", "(", "c", ")">>,
      <<"T", ":">> \o DB_PLACEHOLDER,
      <<"T", ":">> \o FONT_PLACEHOLDER }

\* Lines the user may type at the prompt (before strip()).
Inputs ==
    { <<>>, <<" ">>, <<" ", "\t">>,
      <<"e","x","i","t">>, <<" ","E","X","I","T","\t">>,
      <<"S","a","v","e"," ">>,
      <<"h","i">>, <<"\t","h","i"," ">> }

\* Ids the service hands out.
PreexistingFiles == { <<"f", "0">> }
CorpusFileId == <<"f", "1">>
FontFileId == <<"f", "2">>
VectorStoreId == <<"v", "s", "1">>
AgentId == <<"a", "1">>
ThreadId == <<"t", "1">>

\* The function tool built at module load (lines 38-42).
functions ==
    [type |-> "function", ids |-> { <<"f", "e", "t", "c", "h">> }]

\* All orders in which files.list() may return a set of files.
RECURSIVE Orders(_)
Orders(S) ==
    IF S = {} THEN { <<>> }
    ELSE UNION { { <<x>> \o o : o \in Orders(S \ {x}) } : x \in S }

\* ------------------------------------------------------------------ state
VARIABLES
    INSTRUCTIONS_FILE,        \* module global, lines 25-47
    API_DEPLOYMENT_NAME,      \* Config.API_DEPLOYMENT_NAME
    pc,                       \* position of main()
    toolset,                  \* module global AsyncToolSet: sequence of tools
    font_file_info,           \* add_agent_tools local / initialize local (id)
    database_schema_string,   \* initialize local
    instructions,             \* initialize local
    agent, thread,            \* main locals (ids, or None)
    raw,                      \* the line input() returned last
    prompt, cmd,              \* main locals
    existing_files,           \* cleanup local: files still to delete
    listed,                   \* cleanup local: what files.list() returned
    svc_files,                \* service: uploaded files
    svc_vector_stores,        \* service: vector stores
    svc_agents,               \* service: agents
    svc_threads,              \* service: threads
    auto_function_calls,      \* client: tools enabled for auto dispatch
    messages,                 \* service: the thread's messages
    run,                      \* the turn's run: none, open, completed, failed
    runs,                     \* service: every run opened, with its status
    tool_calls,               \* tool round trips in the open run
    db,                       \* sales_data connection: closed, open
    calls,                    \* history: every call that may raise, in order
    turns                     \* history: post_message calls so far

vars ==
    << INSTRUCTIONS_FILE, API_DEPLOYMENT_NAME, pc, toolset, font_file_info,
       database_schema_string, instructions, agent, thread, raw, prompt, cmd,
       existing_files, listed, svc_files, svc_vector_stores, svc_agents,
       svc_threads, auto_function_calls, messages, run, runs, tool_calls, db,
       calls, turns >>

config == << INSTRUCTIONS_FILE, API_DEPLOYMENT_NAME >>
tools == << toolset, font_file_info >>
render == << database_schema_string, instructions >>
session == << agent, thread >>
input == << raw, prompt, cmd >>
cleanupLocals == << existing_files, listed >>
service == << svc_files, svc_vector_stores, svc_agents, svc_threads >>
turn == << messages, run, runs, tool_calls, turns >>

Call(op, arg, ok) == [op |-> op, arg |-> arg, ok |-> ok]

Init ==
    /\ \E enabled \in SUBSET (1..Len(InstructionLines)) :
           INSTRUCTIONS_FILE = SelectedInstructions(enabled)
    /\ API_DEPLOYMENT_NAME \in DeploymentNames
    /\ pc = "initialize"
    /\ toolset = <<>>
    /\ font_file_info = None
    /\ database_schema_string = None
    /\ instructions = None
    /\ agent = None
    /\ thread = None
    /\ raw = <<>>
    /\ prompt = <<>>
    /\ cmd = None
    /\ existing_files = <<>>
    /\ listed = <<>>
    /\ svc_files \in SUBSET PreexistingFiles
    /\ svc_vector_stores = {}
    /\ svc_agents = {}
    /\ svc_threads = {}
    /\ auto_function_calls = <<>>
    /\ messages = <<>>
    /\ run = "none"
    /\ runs = <<>>
    /\ tool_calls = 0
    /\ db = "closed"
    /\ calls = <<>>
    /\ turns = 0

\* ------------------------------------------------------------- initialize
\* The deployment guard of lines 83-85 left out.
MutConfigPresentIgnoresDeployment == INSTRUCTIONS_FILE # "None"

\* Lines 80-85: both settings must be truthy for initialize() to go on.
ConfigPresent == INSTRUCTIONS_FILE # "None" /\ API_DEPLOYMENT_NAME # ""

\* Lines 80-87: the configuration guards; on a missing setting initialize()
\* returns (None, None) at once.
InitializeCheckConfig ==
    /\ pc = "initialize"
    /\ IF ConfigPresent
       THEN /\ pc' = "add_agent_tools"
            /\ UNCHANGED session
       ELSE /\ agent' = None
            /\ thread' = None
            /\ pc' = "main_check"
    /\ UNCHANGED << config, tools, render, input, cleanupLocals, service,
                    auto_function_calls, turn, db, calls >>

\* Lines 52-55: font_file_info = None; toolset.add(functions).
AddFunctionsTool ==
    /\ pc = "add_agent_tools"
    /\ font_file_info' = None
    /\ toolset' = Append(toolset, functions)
    /\ pc' = "upload_corpus"
    /\ UNCHANGED << config, render, session, input, cleanupLocals, service,
                    auto_function_calls, turn, db, calls >>

\* Lines 58-62, first half of utilities.create_vector_store: the corpus file
\* is uploaded.  A failure raises out of add_agent_tools and initialize.
UploadCorpus ==
    /\ pc = "upload_corpus"
    /\ \E ok \in BOOLEAN :
        /\ calls' = Append(calls, Call("files.upload", CorpusFileId, ok))
        /\ IF ok
           THEN /\ svc_files' = svc_files \cup {CorpusFileId}
                /\ pc' = "create_vector_store"
           ELSE /\ svc_files' = svc_files
                /\ pc' = "crashed"
    /\ UNCHANGED << config, tools, render, session, input, cleanupLocals,
                    svc_vector_stores, svc_agents, svc_threads,
                    auto_function_calls, turn, db >>

\* The vector store's failure swallowed: add_agent_tools goes on.
MutCreateVectorStoreSwallows ==
    /\ pc = "create_vector_store"
    /\ \E ok \in BOOLEAN :
        /\ calls' = Append(calls, Call("vector_stores.create", VectorStoreId, ok))
        /\ svc_vector_stores' =
              IF ok THEN svc_vector_stores \cup {VectorStoreId} ELSE svc_vector_stores
        /\ pc' = "add_file_search"
    /\ UNCHANGED << config, tools, render, session, input, cleanupLocals,
                    svc_files, svc_agents, svc_threads, auto_function_calls,
                    turn, db >>

\* Lines 58-62, second half: the vector store is created from the upload.
CreateVectorStore ==
    /\ pc = "create_vector_store"
    /\ \E ok \in BOOLEAN :
        /\ calls' = Append(calls, Call("vector_stores.create", VectorStoreId, ok))
        /\ IF ok
           THEN /\ svc_vector_stores' = svc_vector_stores \cup {VectorStoreId}
                /\ pc' = "add_file_search"
           ELSE /\ svc_vector_stores' = svc_vector_stores
                /\ pc' = "crashed"
    /\ UNCHANGED << config, tools, render, session, input, cleanupLocals,
                    svc_files, svc_agents, svc_threads, auto_function_calls,
                    turn, db >>

\* Lines 63-64: the file-search tool over the new vector store.
AddFileSearchTool ==
    /\ pc = "add_file_search"
    /\ toolset' = Append(toolset, [type |-> "file_search", ids |-> {VectorStoreId}])
    /\ pc' = "add_code_interpreter"
    /\ UNCHANGED << config, font_file_info, render, session, input,
                    cleanupLocals, service, auto_function_calls, turn, db,
                    calls >>

\* toolset.add(code_interpreter) left out.
MutAddCodeInterpreterToolForgotten ==
    /\ pc = "add_code_interpreter"
    /\ pc' = "upload_font"
    /\ UNCHANGED << config, tools, render, session, input, cleanupLocals,
                    service, auto_function_calls, turn, db, calls >>

\* Lines 67-68: the code-interpreter tool, no file attached yet.
AddCodeInterpreterTool ==
    /\ pc = "add_code_interpreter"
    /\ toolset' = Append(toolset, [type |-> "code_interpreter", ids |-> {}])
    /\ pc' = "upload_font"
    /\ UNCHANGED << config, font_file_info, render, session, input,
                    cleanupLocals, service, auto_function_calls, turn, db,
                    calls >>

\* code_interpreter.add_file(file_id): the tool object is already in the
\* toolset, so the toolset sees the file.
AddFile(ts, id) ==
    [i \in 1..Len(ts) |->
        IF ts[i].type = "code_interpreter"
        THEN [ts[i] EXCEPT !.ids = @ \cup {id}]
        ELSE ts[i]]

\* The font upload's failure handled by deleting what was uploaded before
\* raising.
MutUploadFontFileRollsBack ==
    /\ pc = "upload_font"
    /\ \E ok \in BOOLEAN :
        IF ok
        THEN /\ calls' = Append(calls, Call("files.upload", FontFileId, TRUE))
             /\ svc_files' = svc_files \cup {FontFileId}
             /\ font_file_info' = FontFileId
             /\ toolset' = AddFile(toolset, FontFileId)
             /\ pc' = "connect"
        ELSE /\ calls' = calls \o <<Call("files.upload", FontFileId, FALSE),
                                    Call("files.delete", CorpusFileId, TRUE)>>
             /\ svc_files' = svc_files \ {CorpusFileId}
             /\ UNCHANGED tools
             /\ pc' = "crashed"
    /\ UNCHANGED << config, render, session, input, cleanupLocals,
                    svc_vector_stores, svc_agents, svc_threads,
                    auto_function_calls, turn, db >>

\* The font upload's failure swallowed: initialize() goes on without it.
MutUploadFontFileSwallows ==
    /\ pc = "upload_font"
    /\ \E ok \in BOOLEAN :
        /\ calls' = Append(calls, Call("files.upload", FontFileId, ok))
        /\ IF ok
           THEN /\ svc_files' = svc_files \cup {FontFileId}
                /\ font_file_info' = FontFileId
                /\ toolset' = AddFile(toolset, FontFileId)
           ELSE UNCHANGED << svc_files, tools >>
        /\ pc' = "connect"
    /\ UNCHANGED << config, render, session, input, cleanupLocals,
                    svc_vector_stores, svc_agents, svc_threads,
                    auto_function_calls, turn, db >>

\* Lines 71-74: the font archive is uploaded and attached; add_agent_tools
\* returns its file info.  A failure raises out of initialize.
UploadFontFile ==
    /\ pc = "upload_font"
    /\ \E ok \in BOOLEAN :
        /\ calls' = Append(calls, Call("files.upload", FontFileId, ok))
        /\ IF ok
           THEN /\ svc_files' = svc_files \cup {FontFileId}
                /\ font_file_info' = FontFileId
                /\ toolset' = AddFile(toolset, FontFileId)
                /\ pc' = "connect"
           ELSE /\ UNCHANGED << svc_files, tools >>
                /\ pc' = "crashed"
    /\ UNCHANGED << config, render, session, input, cleanupLocals,
                    svc_vector_stores, svc_agents, svc_threads,
                    auto_function_calls, turn, db >>

\* Line 89: sales_data.connect(), outside the try block.
Connect ==
    /\ pc = "connect"
    /\ \E ok \in BOOLEAN :
        /\ calls' = Append(calls, Call("sales_data.connect", None, ok))
        /\ IF ok
           THEN db' = "open" /\ pc' = "get_database_info"
           ELSE db' = db /\ pc' = "crashed"
    /\ UNCHANGED << config, tools, render, session, input, cleanupLocals,
                    service, auto_function_calls, turn >>

\* Line 90: sales_data.get_database_info(), outside the try block.
GetDatabaseInfo ==
    /\ pc = "get_database_info"
    /\ \/ /\ \E schema \in Schemas : database_schema_string' = schema
          /\ calls' = Append(calls, Call("sales_data.get_database_info", None, TRUE))
          /\ pc' = "load_instructions"
       \/ /\ calls' = Append(calls, Call("sales_data.get_database_info", None, FALSE))
          /\ database_schema_string' = database_schema_string
          /\ pc' = "crashed"
    /\ UNCHANGED << config, tools, instructions, session, input,
                    cleanupLocals, service, auto_function_calls, turn, db >>

\* Lines 95-101: the two replace() calls, one after the other.
RenderInstructions(template, schema, font) ==
    LET first == Replace(template, DB_PLACEHOLDER, schema)
    IN  IF font # None THEN Replace(first, FONT_PLACEHOLDER, font) ELSE first

\* Lines 122-125: the except clause of initialize().
InitializeExcept ==
    /\ agent' = None
    /\ thread' = None
    /\ pc' = "main_check"

\* Lines 93-101: load the template (it may be unreadable) and render it.
RenderStep ==
    /\ pc = "load_instructions"
    /\ \/ /\ instructions' = RenderInstructions(LoadInstructions(INSTRUCTIONS_FILE),
                                                database_schema_string,
                                                font_file_info)
          /\ calls' = Append(calls, Call("load_instructions", None, TRUE))
          /\ pc' = "create_agent"
          /\ UNCHANGED session
       \/ /\ instructions' = instructions
          /\ calls' = Append(calls, Call("load_instructions", None, FALSE))
          /\ InitializeExcept
    /\ UNCHANGED << config, tools, database_schema_string, input,
                    cleanupLocals, service, auto_function_calls, turn, db >>

\* Lines 104-110: create_agent with the rendered instructions and the
\* module's toolset.
CreateAgent ==
    /\ pc = "create_agent"
    /\ \E ok \in BOOLEAN :
        /\ calls' = Append(calls, Call("create_agent", AgentId, ok))
        /\ IF ok
           THEN /\ svc_agents' = svc_agents \cup
                       { [id |-> AgentId, model |-> API_DEPLOYMENT_NAME,
                          instructions |-> instructions, toolset |-> toolset] }
                /\ pc' = "enable_auto_function_calls"
                /\ UNCHANGED session
           ELSE /\ svc_agents' = svc_agents
                /\ InitializeExcept
    /\ UNCHANGED << config, tools, render, input, cleanupLocals, svc_files,
                    svc_vector_stores, svc_threads, auto_function_calls,
                    turn, db >>

\* Line 113: enable_auto_function_calls(tools=toolset), a client-side call.
EnableAutoFunctionCalls ==
    /\ pc = "enable_auto_function_calls"
    /\ \/ /\ auto_function_calls' = toolset
          /\ calls' = Append(calls, Call("enable_auto_function_calls", None, TRUE))
          /\ pc' = "create_thread"
          /\ UNCHANGED session
       \/ /\ auto_function_calls' = auto_function_calls
          /\ calls' = Append(calls, Call("enable_auto_function_calls", None, FALSE))
          /\ InitializeExcept
    /\ UNCHANGED << config, tools, render, input, cleanupLocals, service,
                    turn, db >>

\* Lines 117-120: threads.create(); on success initialize() returns the pair.
CreateThread ==
    /\ pc = "create_thread"
    /\ \E ok \in BOOLEAN :
        /\ calls' = Append(calls, Call("threads.create", ThreadId, ok))
        /\ IF ok
           THEN /\ svc_threads' = svc_threads \cup {ThreadId}
                /\ agent' = AgentId
                /\ thread' = ThreadId
                /\ pc' = "main_check"
           ELSE /\ svc_threads' = svc_threads
                /\ InitializeExcept
    /\ UNCHANGED << config, tools, render, input, cleanupLocals, svc_files,
                    svc_vector_stores, svc_agents, auto_function_calls, turn,
                    db >>

\* The check of lines 171-174 left out: the loop starts whatever
\* initialize() returned.
MutMainCheckIgnoresFailure ==
    /\ pc = "main_check"
    /\ pc' = "loop"
    /\ cmd' = None
    /\ UNCHANGED << config, tools, render, session, raw, prompt,
                    cleanupLocals, service, auto_function_calls, turn, db,
                    calls >>

\* Lines 170-176: main() gives up when initialize() returned no session.
MainCheck ==
    /\ pc = "main_check"
    /\ IF agent = None \/ thread = None
       THEN pc' = "exit_init_failed" /\ cmd' = cmd
       ELSE pc' = "loop" /\ cmd' = None
    /\ UNCHANGED << config, tools, render, session, raw, prompt,
                    cleanupLocals, service, auto_function_calls, turn, db,
                    calls >>

\* ------------------------------------------------------- interactive loop
\* Line 181: `if not prompt`.
IsBlank(p) == p = <<>>

\* The membership test made against the upper-case words: cmd is
\* lower-cased, so nothing matches.
MutIsSentinelUpper(c) == c \in { <<"E","X","I","T">>, <<"S","A","V","E">> }

\* Line 185: `cmd in {"exit", "save"}`.
IsSentinel(c) == c \in {EXIT, SAVE}

\* Lines 179-188, input() returning `line`: strip it; a blank line
\* re-prompts, a sentinel leaves the loop, anything else is handed to
\* post_message.
ReadPromptLine(line) ==
    /\ pc = "loop"
    /\ raw' = line
    /\ prompt' = Strip(line)
    /\ IF IsBlank(prompt')
       THEN /\ pc' = "loop"
            /\ UNCHANGED << cmd, turns >>
       ELSE /\ cmd' = Lower(prompt')
            /\ IF IsSentinel(cmd')
               THEN /\ pc' = "after_loop"
                    /\ turns' = turns
               ELSE /\ turns < MaxTurns
                    /\ pc' = "post_message"
                    /\ turns' = turns + 1
    /\ UNCHANGED << config, tools, render, session, cleanupLocals, service,
                    auto_function_calls, messages, run, runs, tool_calls, db,
                    calls >>

\* Lines 179-180, input() raising EOFError because the input source is
\* closed: nothing catches it.
ReadPromptEOF ==
    /\ pc = "loop"
    /\ pc' = "crashed"
    /\ UNCHANGED << config, tools, render, session, input, cleanupLocals,
                    service, auto_function_calls, turn, db, calls >>

\* Lines 178-188: one pass of the loop.
ReadPrompt ==
    \/ \E line \in Inputs : ReadPromptLine(line)
    \/ ReadPromptEOF

\* ------------------------------------------------------------ post_message
\* The except clause re-raising.
MutPostMessageReraises == pc' = "crashed"

\* Lines 160-162: the except clause logs and post_message returns.
PostMessageExcept == pc' = "loop"

\* Line 188: post_message(agent=agent, thread_id=thread.id, content=prompt,
\* thread=thread): the two parameters that name the thread.
thread_id == thread
post_thread == thread

\* The failure of messages.create swallowed: the run is opened all the same.
MutPostCreateMessageSwallows ==
    /\ pc = "post_message"
    /\ \E ok \in BOOLEAN :
        /\ calls' = Append(calls, Call("messages.create", prompt, ok))
        /\ messages' =
              IF ok THEN Append(messages, [role |-> "user", content |-> prompt,
                                           thread |-> thread_id])
              ELSE messages
        /\ pc' = "runs_stream"
    /\ UNCHANGED << config, tools, render, session, input, cleanupLocals,
                    service, auto_function_calls, run, runs, tool_calls, turns,
                    db >>

\* A message whose content is already on the thread is not appended again.
MutPostCreateMessageDedups ==
    /\ pc = "post_message"
    /\ \E ok \in BOOLEAN :
        /\ calls' = Append(calls, Call("messages.create", prompt, ok))
        /\ IF ok
           THEN /\ messages' =
                     IF \E i \in 1..Len(messages) :
                           messages[i].role = "user" /\ messages[i].content = prompt
                     THEN messages
                     ELSE Append(messages, [role |-> "user", content |-> prompt,
                                            thread |-> thread_id])
                /\ pc' = "runs_stream"
           ELSE /\ messages' = messages
                /\ PostMessageExcept
    /\ UNCHANGED << config, tools, render, session, input, cleanupLocals,
                    service, auto_function_calls, run, runs, tool_calls, turns,
                    db >>

\* Lines 141-145: messages.create(thread_id, role="user", content).
PostCreateMessage ==
    /\ pc = "post_message"
    /\ \E ok \in BOOLEAN :
        /\ calls' = Append(calls, Call("messages.create", prompt, ok))
        /\ IF ok
           THEN /\ messages' = Append(messages, [role |-> "user", content |-> prompt,
                                                  thread |-> thread_id])
                /\ pc' = "runs_stream"
           ELSE /\ messages' = messages
                /\ PostMessageExcept
    /\ UNCHANGED << config, tools, render, session, input, cleanupLocals,
                    service, auto_function_calls, run, runs, tool_calls, turns,
                    db >>

\* `await stream.until_done()` left out: post_message returns with the run
\* still open.
MutRunsStreamNoWait ==
    /\ pc = "runs_stream"
    /\ \E ok \in BOOLEAN :
        /\ calls' = Append(calls, Call("runs.stream", post_thread, ok))
        /\ IF ok
           THEN /\ run' = "open"
                /\ runs' = Append(runs, [thread |-> post_thread, agent |-> agent,
                                         status |-> "open"])
                /\ tool_calls' = 0
           ELSE /\ UNCHANGED << run, runs, tool_calls >>
        /\ pc' = "loop"
    /\ UNCHANGED << config, tools, render, session, input, cleanupLocals,
                    service, auto_function_calls, messages, turns, db >>

\* Lines 147-157: runs.stream(thread_id, agent_id, ...) opens the run.
RunsStream ==
    /\ pc = "runs_stream"
    /\ \E ok \in BOOLEAN :
        /\ calls' = Append(calls, Call("runs.stream", post_thread, ok))
        /\ IF ok
           THEN /\ run' = "open"
                /\ runs' = Append(runs, [thread |-> post_thread, agent |-> agent,
                                         status |-> "open"])
                /\ tool_calls' = 0
                /\ pc' = "until_done"
           ELSE /\ UNCHANGED << run, runs, tool_calls >>
                /\ PostMessageExcept
    /\ UNCHANGED << config, tools, render, session, input, cleanupLocals,
                    service, auto_function_calls, messages, turns, db >>

\* Line 158, inside until_done(): the run asks for the function tool; the
\* event handler calls it and feeds the result back into the same run.
StreamToolCall ==
    /\ pc = "until_done"
    /\ run = "open"
    /\ tool_calls < MaxToolCalls
    /\ tool_calls' = tool_calls + 1
    /\ UNCHANGED << config, tools, render, session, input, cleanupLocals,
                    service, auto_function_calls, messages, run, runs, turns,
                    db, calls, pc >>

\* Line 158: until_done() ends with the run completed (the answer is on the
\* thread), with the run failed, or by raising; leaving the `async with`
\* closes the stream in each case.
UntilDone ==
    /\ pc = "until_done"
    /\ \/ /\ run' = "completed"
          /\ messages' = Append(messages, [role |-> "assistant", content |-> <<"o", "k">>,
                                           thread |-> post_thread])
          /\ calls' = Append(calls, Call("until_done", post_thread, TRUE))
          /\ pc' = "loop"
       \/ /\ run' = "failed"
          /\ messages' = messages
          /\ calls' = Append(calls, Call("until_done", post_thread, TRUE))
          /\ pc' = "loop"
       \/ /\ run' = "failed"
          /\ messages' = messages
          /\ calls' = Append(calls, Call("until_done", post_thread, FALSE))
          /\ PostMessageExcept
    /\ runs' = [runs EXCEPT ![Len(runs)].status = run']
    /\ tool_calls' = 0
    /\ UNCHANGED << config, tools, render, session, input, cleanupLocals,
                    service, auto_function_calls, turns, db >>

\* ------------------------------------------------------------ end of main
\* The comparison made against the upper-case word: cmd is lower-cased.
MutIsSaveUpper(c) == c = <<"S", "A", "V", "E">>

\* The comparison made against both sentinels.
MutIsSaveAnySentinel(c) == c \in {SAVE, EXIT}

\* Line 190: `if cmd == "save"`.
IsSave(c) == c = SAVE

\* Lines 190-196: save reports the agent and leaves everything in place;
\* anything else runs cleanup().
AfterLoop ==
    /\ pc = "after_loop"
    /\ pc' = IF IsSave(cmd) THEN "exit_saved" ELSE "cleanup"
    /\ UNCHANGED << config, tools, render, session, input, cleanupLocals,
                    service, auto_function_calls, turn, db, calls >>

\* ----------------------------------------------------------------- cleanup
\* The for loop of lines 131-132 left out.
MutAfterFilesSkipsLoop(rest) == "delete_thread"

\* Line 131: the for loop goes on while files are left, then line 133.
AfterFiles(rest) == IF rest = <<>> THEN "delete_thread" ELSE "delete_files"

\* Line 130: files.list() returns every file the service holds.
CleanupList ==
    /\ pc = "cleanup"
    /\ \/ /\ \E order \in Orders(svc_files) :
                /\ listed' = order
                /\ existing_files' = order
                /\ pc' = AfterFiles(order)
          /\ calls' = Append(calls, Call("files.list", None, TRUE))
       \/ /\ calls' = Append(calls, Call("files.list", None, FALSE))
          /\ pc' = "crashed"
          /\ UNCHANGED cleanupLocals
    /\ UNCHANGED << config, tools, render, session, input, service,
                    auto_function_calls, turn, db >>

\* Lines 131-132: files.delete(f.id) for the next listed file.
CleanupDeleteFile ==
    /\ pc = "delete_files"
    /\ existing_files # <<>>
    /\ \E ok \in BOOLEAN :
        /\ calls' = Append(calls, Call("files.delete", Head(existing_files), ok))
        /\ IF ok
           THEN /\ svc_files' = svc_files \ {Head(existing_files)}
                /\ existing_files' = Tail(existing_files)
                /\ pc' = AfterFiles(Tail(existing_files))
           ELSE /\ UNCHANGED << svc_files, existing_files >>
                /\ pc' = "crashed"
    /\ UNCHANGED << config, tools, render, session, input, listed,
                    svc_vector_stores, svc_agents, svc_threads,
                    auto_function_calls, turn, db >>

\* Line 133: threads.delete(thread.id); the thread's messages go with it.
CleanupDeleteThread ==
    /\ pc = "delete_thread"
    /\ \E ok \in BOOLEAN :
        /\ calls' = Append(calls, Call("threads.delete", thread, ok))
        /\ IF ok
           THEN /\ svc_threads' = svc_threads \ {thread}
                /\ messages' = <<>>
                /\ pc' = "delete_agent"
           ELSE /\ UNCHANGED << svc_threads, messages >>
                /\ pc' = "crashed"
    /\ UNCHANGED << config, tools, render, session, input, cleanupLocals,
                    svc_files, svc_vector_stores, svc_agents,
                    auto_function_calls, run, runs, tool_calls, turns, db >>

\* Line 134: delete_agent(agent.id).
CleanupDeleteAgent ==
    /\ pc = "delete_agent"
    /\ \E ok \in BOOLEAN :
        /\ calls' = Append(calls, Call("delete_agent", agent, ok))
        /\ IF ok
           THEN /\ svc_agents' = { a \in svc_agents : a.id # agent }
                /\ pc' = "close"
           ELSE /\ svc_agents' = svc_agents
                /\ pc' = "crashed"
    /\ UNCHANGED << config, tools, render, session, input, cleanupLocals,
                    svc_files, svc_vector_stores, svc_threads,
                    auto_function_calls, turn, db >>

\* Lines 135 and 197: sales_data.close(), then main() returns.
CleanupClose ==
    /\ pc = "close"
    /\ \E ok \in BOOLEAN :
        /\ calls' = Append(calls, Call("sales_data.close", None, ok))
        /\ IF ok
           THEN db' = "closed" /\ pc' = "exit_cleaned"
           ELSE db' = db /\ pc' = "crashed"
    /\ UNCHANGED << config, tools, render, session, input, cleanupLocals,
                    service, auto_function_calls, turn >>

\* ----------------------------------------------------------- specification
Next ==
    \/ InitializeCheckConfig
    \/ AddFunctionsTool
    \/ UploadCorpus
    \/ CreateVectorStore
    \/ AddFileSearchTool
    \/ AddCodeInterpreterTool
    \/ UploadFontFile
    \/ Connect
    \/ GetDatabaseInfo
    \/ RenderStep
    \/ CreateAgent
    \/ EnableAutoFunctionCalls
    \/ CreateThread
    \/ MainCheck
    \/ ReadPrompt
    \/ PostCreateMessage
    \/ RunsStream
    \/ StreamToolCall
    \/ UntilDone
    \/ AfterLoop
    \/ CleanupList
    \/ CleanupDeleteFile
    \/ CleanupDeleteThread
    \/ CleanupDeleteAgent
    \/ CleanupClose

Spec == Init /\ [][Next]_vars

\* The program with an input source that is never closed: input() always
\* returns a line.
LiveNext ==
    \/ InitializeCheckConfig
    \/ AddFunctionsTool
    \/ UploadCorpus
    \/ CreateVectorStore
    \/ AddFileSearchTool
    \/ AddCodeInterpreterTool
    \/ UploadFontFile
    \/ Connect
    \/ GetDatabaseInfo
    \/ RenderStep
    \/ CreateAgent
    \/ EnableAutoFunctionCalls
    \/ CreateThread
    \/ MainCheck
    \/ \E line \in Inputs : ReadPromptLine(line)
    \/ PostCreateMessage
    \/ RunsStream
    \/ StreamToolCall
    \/ UntilDone
    \/ AfterLoop
    \/ CleanupList
    \/ CleanupDeleteFile
    \/ CleanupDeleteThread
    \/ CleanupDeleteAgent
    \/ CleanupClose

\* input() returns a sentinel.
SentinelRead ==
    \E line \in Inputs : ReadPromptLine(line) /\ pc' = "after_loop"

\* asyncio.run(main()) keeps running main() and every awaited call returns
\* or raises (weak fairness); the input source supplies a sentinel sooner or
\* later, however often the prompt is shown (strong fairness).
LiveSpec ==
    Init /\ [][LiveNext]_vars /\ WF_vars(LiveNext) /\ SF_vars(SentinelRead)

\* ----------------------------------------------------------------- claims
Ops(which) == { i \in 1..Len(calls) : calls[i].op \in which }
Failed(which) == { i \in Ops(which) : ~calls[i].ok }
LastCall == calls[Len(calls)]

CreatingOps == {"files.upload", "vector_stores.create", "create_agent", "threads.create"}
DeleteOps == {"files.delete", "threads.delete", "delete_agent"}
CleanupOps == DeleteOps \cup {"files.list", "sales_data.close"}
InitializeOps ==
    CreatingOps \cup {"sales_data.connect", "sales_data.get_database_info",
                      "load_instructions", "enable_auto_function_calls"}
PostMessageOps == {"messages.create", "runs.stream", "until_done"}

\* C1: with no instruction template selected or no deployment name set,
\* initialize() returns (None, None) and no call that creates a remote
\* resource (upload, vector store, agent, thread) is ever made.
C1_ConfigMissingCreatesNothing ==
    (INSTRUCTIONS_FILE = "None" \/ API_DEPLOYMENT_NAME = "") =>
        /\ Ops(CreatingOps) = {}
        /\ svc_files \subseteq PreexistingFiles
        /\ svc_vector_stores = {} /\ svc_agents = {} /\ svc_threads = {}
        /\ pc \in {"initialize", "main_check", "exit_init_failed"}
        /\ agent = None /\ thread = None

C1_Witness ==
    /\ pc = "exit_init_failed"
    /\ INSTRUCTIONS_FILE # "None"
    /\ API_DEPLOYMENT_NAME = ""

\* C2: whichever step of initialize() fails, initialize() returns
\* (None, None) to main() and the exception does not escape.
C2_InitializeFailureNeverPropagates ==
    Failed(InitializeOps) # {} =>
        /\ pc \in {"main_check", "exit_init_failed"}
        /\ agent = None /\ thread = None

\* C3: in cleanup, the thread is deleted only after every listed file was
\* deleted, the agent only after the thread, and the data connection is
\* closed last; a cleanup whose calls all succeed leaves none of them.
C3_CleanupOrder ==
    /\ \A j \in Ops({"threads.delete"}) :
          \A k \in 1..Len(listed) :
             \E i \in 1..(j - 1) : calls[i] = Call("files.delete", listed[k], TRUE)
    /\ \A j \in Ops({"delete_agent"}) :
          \E i \in 1..(j - 1) : calls[i] = Call("threads.delete", thread, TRUE)
    /\ \A j \in Ops({"sales_data.close"}) :
          /\ j = Len(calls)
          /\ \E i \in 1..(j - 1) : calls[i] = Call("delete_agent", agent, TRUE)
    /\ pc = "exit_cleaned" =>
          /\ LastCall = Call("sales_data.close", None, TRUE)
          /\ \A k \in 1..Len(listed) : listed[k] \notin svc_files
          /\ thread \notin svc_threads
          /\ \A a \in svc_agents : a.id # agent

C3_Witness ==
    /\ pc = "exit_cleaned"
    /\ Len(listed) = 3
    /\ svc_files = {}

\* C4: once the loop has ended with save, no file, thread or agent delete
\* is issued, and the agent, the thread and the uploaded files stay at the
\* service, whatever turns came before.
C4_SaveDeletesNothing ==
    cmd = SAVE =>
        /\ pc \in {"after_loop", "exit_saved"}
        /\ Ops(CleanupOps) = {}
        /\ \E a \in svc_agents : a.id = agent
        /\ thread \in svc_threads
        /\ {CorpusFileId, FontFileId} \subseteq svc_files

C4_Witness ==
    /\ pc = "exit_saved"
    /\ Failed(PostMessageOps) # {}
    /\ Len(messages) >= 2

\* The calls of one complete cleanup, in order, for the files listed.
CleanupCalls ==
    <<Call("files.list", None, TRUE)>>
    \o [k \in 1..Len(listed) |-> Call("files.delete", listed[k], TRUE)]
    \o <<Call("threads.delete", thread, TRUE),
         Call("delete_agent", agent, TRUE),
         Call("sales_data.close", None, TRUE)>>

\* C5: once the loop has ended with exit, cleanup() is what runs: the
\* program is in cleanup or has left it, it leaves it normally only with
\* the whole sequence done (list, every listed file deleted, thread
\* deleted, agent deleted, connection closed), and otherwise only by a
\* cleanup call that raised.
C5_ExitRunsCleanup ==
    cmd = EXIT =>
        /\ pc \in {"after_loop", "cleanup", "delete_files", "delete_thread",
                   "delete_agent", "close", "exit_cleaned", "crashed"}
        /\ pc \notin {"after_loop", "cleanup"} => Ops({"files.list"}) # {}
        /\ pc = "crashed" => LastCall.op \in CleanupOps /\ ~LastCall.ok
        /\ pc = "exit_cleaned" =>
              /\ Len(calls) >= Len(CleanupCalls)
              /\ SubSeq(calls, Len(calls) - Len(CleanupCalls) + 1, Len(calls))
                    = CleanupCalls
              /\ svc_files = {} /\ svc_threads = {} /\ svc_agents = {}
              /\ db = "closed"

C5_Witness ==
    /\ pc = "exit_cleaned"
    /\ raw = <<" ", "E", "X", "I", "T", "\t">>
    /\ turns >= 1

\* C6: a line that is empty or all whitespace makes no post_message call:
\* nothing is appended, no run is opened, the session is as it was and the
\* loop is back at the prompt.
C6_BlankInputIgnored ==
    [][ ( /\ pc = "loop"
          /\ pc' # "crashed"
          /\ \A i \in 1..Len(raw') : raw'[i] \in {" ", "\t"} )
        => ( /\ pc' = "loop"
             /\ UNCHANGED << calls, messages, run, runs, tool_calls, turns, cmd,
                             session, service, db >> ) ]_vars

C6_Witness ==
    /\ pc = "loop"
    /\ raw = <<" ", "\t">>
    /\ prompt = <<>>
    /\ turns >= 1

\* C7: a post_message call that raises (appending the message, opening the
\* run or consuming it) returns to the loop: no cleanup call follows from
\* it and the agent and the thread are the same and still at the service.
C7_TurnFailureNotFatal ==
    [][ ( /\ pc \in {"post_message", "runs_stream", "until_done"}
          /\ calls' # calls
          /\ ~calls'[Len(calls')].ok )
        => ( /\ pc' = "loop"
             /\ UNCHANGED << session, service, db, cmd >>
             /\ \E a \in svc_agents' : a.id = agent'
             /\ thread' \in svc_threads' ) ]_vars

\* A failed turn was followed by a turn that went through.
C7_Witness ==
    \E i \in Failed(PostMessageOps) :
        \E j \in Ops({"until_done"}) : i < j /\ calls[j].ok /\ run = "completed"

\* Toolset assembly (add_agent_tools) has run to its end.
AssemblyCompleted ==
    /\ \E i \in 1..Len(toolset) : toolset[i] = functions
    /\ \E i \in Ops({"files.upload"}) : calls[i] = Call("files.upload", CorpusFileId, TRUE)
    /\ \E i \in Ops({"vector_stores.create"}) : calls[i].ok
    /\ \E i \in 1..Len(toolset) :
          toolset[i] = [type |-> "file_search", ids |-> {VectorStoreId}]
    /\ \E i \in Ops({"files.upload"}) : calls[i] = Call("files.upload", FontFileId, TRUE)
    /\ \E i \in 1..Len(toolset) :
          toolset[i] = [type |-> "code_interpreter", ids |-> {FontFileId}]
    /\ font_file_info = FontFileId

\* C8: the agent or the thread exists at the service only after toolset
\* assembly has completed, and the thread only while the agent exists.
C8_AssemblyBeforeAgentAndThread ==
    /\ (svc_agents # {} \/ svc_threads # {}) => AssemblyCompleted
    /\ svc_threads # {} => svc_agents # {}

C8_Witness ==
    /\ svc_agents # {}
    /\ svc_threads = {}
    /\ pc = "create_thread"

\* C9: once initialize() has returned an agent and a thread, the toolset
\* holds exactly the function, file-search and code-interpreter tools and
\* the agent at the service was created with that toolset.
C9_ThreeToolsBoundToAgent ==
    agent # None =>
        /\ Len(toolset) = 3
        /\ { toolset[i].type : i \in 1..Len(toolset) }
              = {"function", "file_search", "code_interpreter"}
        /\ \A a \in svc_agents : a.id = agent /\ a.toolset = toolset
        /\ pc \in {"main_check", "loop"} => svc_agents # {}

C9_Witness ==
    /\ pc = "main_check"
    /\ agent = AgentId
    /\ thread = ThreadId

\* What one literal pass over the template gives: each placeholder found in
\* the template is replaced, the inserted values are copied as they are.
RECURSIVE SinglePass(_, _, _)
SinglePass(template, schema, font) ==
    IF template = <<>> THEN <<>>
    ELSE IF Len(template) >= Len(DB_PLACEHOLDER)
            /\ SubSeq(template, 1, Len(DB_PLACEHOLDER)) = DB_PLACEHOLDER
         THEN schema \o SinglePass(SubSeq(template, Len(DB_PLACEHOLDER) + 1,
                                          Len(template)), schema, font)
    ELSE IF font # None
            /\ Len(template) >= Len(FONT_PLACEHOLDER)
            /\ SubSeq(template, 1, Len(FONT_PLACEHOLDER)) = FONT_PLACEHOLDER
         THEN font \o SinglePass(SubSeq(template, Len(FONT_PLACEHOLDER) + 1,
                                        Len(template)), schema, font)
    ELSE <<Head(template)>> \o SinglePass(Tail(template), schema, font)

\* C10: the rendered instructions are the template with its placeholders
\* replaced in one literal pass: the schema description appears verbatim,
\* also when it contains a placeholder token itself.
C10_SubstitutionIsSinglePass ==
    pc = "create_agent" =>
        instructions = SinglePass(LoadInstructions(INSTRUCTIONS_FILE),
                                  database_schema_string, font_file_info)

OpenRuns == { i \in 1..Len(runs) : runs[i].status = "open" }

\* C11: at most one run is open at a time, and a run is open only inside
\* post_message's until_done(): whenever the loop is at the prompt (or the
\* program is anywhere else) every run opened so far is completed or failed.
C11_OneRunAtATime ==
    /\ Cardinality(OpenRuns) <= 1
    /\ OpenRuns # {} => pc = "until_done" /\ OpenRuns = {Len(runs)}
    /\ pc = "loop" => \A i \in 1..Len(runs) : runs[i].status \in {"completed", "failed"}

C11_Witness ==
    /\ pc = "loop"
    /\ Len(runs) = 2
    /\ runs[1].status = "failed"
    /\ runs[2].status = "completed"

\* C12: once cleanup has listed the files, a delete is attempted for every
\* listed file, for the thread and for the agent by the time the program
\* ends, whether or not another delete failed.
C12_EveryDeletionAttempted ==
    (pc \in {"crashed", "exit_cleaned"} /\ Ops({"files.list"}) \ Failed({"files.list"}) # {}) =>
        /\ \A k \in 1..Len(listed) :
              \E i \in Ops({"files.delete"}) : calls[i].arg = listed[k]
        /\ Ops({"threads.delete"}) # {}
        /\ Ops({"delete_agent"}) # {}

IsUserMessage(m) == m.role = "user"
IsCreatedMessage(c) == c.op = "messages.create" /\ c.ok
UserMessages == SelectSeq(messages, IsUserMessage)
CreatedMessages == SelectSeq(calls, IsCreatedMessage)

\* C13: while the thread exists, its user messages are, one for one and in
\* call order, the contents of the messages.create calls that succeeded:
\* a call whose content equals an earlier one still appends its own message.
C13_NoDeduplication ==
    thread \in svc_threads =>
        [i \in 1..Len(UserMessages) |-> UserMessages[i].content]
            = [i \in 1..Len(CreatedMessages) |-> CreatedMessages[i].arg]

C13_Witness ==
    /\ Len(UserMessages) = 2
    /\ UserMessages[1].content = UserMessages[2].content
    /\ pc = "loop"

\* Lines that are a sentinel in some case and with whitespace around it,
\* and the words they strip to.
SentinelLines ==
    { <<"e","x","i","t">>, <<" ","E","X","I","T","\t">>, <<"S","a","v","e"," ">> }
SentinelWords ==
    { <<"e","x","i","t">>, <<"E","X","I","T">>, <<"S","a","v","e">> }

\* C14: a line that is exit or save in any case, with any whitespace around
\* it, ends the loop with cmd the lower-case sentinel, and is never sent as
\* a turn: no call is made for it and no message ever carries it.
C14_SentinelsRecognised ==
    /\ [][ ( /\ pc = "loop"
             /\ pc' # "crashed"
             /\ raw' \in SentinelLines )
           => ( /\ pc' = "after_loop"
                /\ cmd' \in {EXIT, SAVE}
                /\ UNCHANGED << calls, messages, run, runs, turns, session,
                                service >> ) ]_vars
    /\ [](\A i \in Ops({"messages.create"}) : calls[i].arg \notin SentinelWords)

C14_Witness ==
    /\ pc = "after_loop"
    /\ raw = <<"S","a","v","e"," ">>
    /\ cmd = SAVE
    /\ turns >= 1

AssemblyOps == {"files.upload", "vector_stores.create"}

\* C15: once an upload or the vector-store creation of toolset assembly has
\* failed, no agent and no thread exists and none is ever asked for.
C15_AssemblyFailureCreatesNoAgent ==
    Failed(AssemblyOps) # {} =>
        /\ svc_agents = {} /\ svc_threads = {}
        /\ Ops({"create_agent", "threads.create"}) = {}
        /\ agent = None /\ thread = None

C15_Witness ==
    /\ pc = "crashed"
    /\ Failed({"vector_stores.create"}) # {}
    /\ CorpusFileId \in svc_files

\* The session's state, read off the position of main().
Phase ==
    CASE pc = "initialize" -> "Uninitialized"
      [] pc \in {"add_agent_tools", "upload_corpus", "create_vector_store",
                 "add_file_search", "add_code_interpreter", "upload_font",
                 "connect", "get_database_info", "load_instructions",
                 "create_agent", "enable_auto_function_calls",
                 "create_thread"} -> "Configuring"
      [] pc = "main_check" /\ agent # None /\ thread # None -> "Provisioned"
      [] pc \in {"loop", "post_message", "runs_stream", "until_done"} -> "Open"
      [] pc \in {"after_loop", "cleanup", "delete_files", "delete_thread",
                 "delete_agent", "close"} -> "Terminating"
      [] pc = "exit_saved" -> "Saved"
      [] pc = "exit_cleaned" -> "Closed"
      [] OTHER -> "Aborted"

\* Steps of the state machine: stay, go one state forward, or abort
\* (initialization failed, or an exception nothing caught).
Forward ==
    { <<"Uninitialized", "Configuring">>, <<"Configuring", "Configuring">>,
      <<"Configuring", "Provisioned">>, <<"Provisioned", "Open">>,
      <<"Open", "Open">>, <<"Open", "Terminating">>,
      <<"Terminating", "Terminating">>, <<"Terminating", "Saved">>,
      <<"Terminating", "Closed">>,
      <<"Uninitialized", "Aborted">>, <<"Configuring", "Aborted">>,
      <<"Open", "Aborted">>, <<"Terminating", "Aborted">>,
      <<"Aborted", "Aborted">> }

\* C16: the session only moves forward through Uninitialized, Configuring,
\* Provisioned, Open, Terminating and one of Saved or Closed; a post_message
\* call is made only while it is Open, with an agent and a thread and no
\* cleanup call made yet; from Saved or Closed no step is taken at all.
C16_SessionStateMachine ==
    [][ /\ <<Phase, Phase'>> \in Forward
        /\ Phase \notin {"Saved", "Closed"}
        /\ Phase' = "Saved" => cmd = SAVE
        /\ Phase' = "Closed" => cmd # SAVE
        /\ (pc' = "post_message" \/ (calls' # calls /\ calls'[Len(calls')].op \in PostMessageOps))
              => ( /\ Phase = "Open" /\ Phase' = "Open"
                   /\ agent # None /\ thread # None
                   /\ Ops(CleanupOps) = {} ) ]_vars

C16_Witness ==
    /\ Phase = "Closed"
    /\ Len(runs) = 2

\* C17: when toolset assembly fails after the corpus file was uploaded, the
\* program ends without a single delete call: the file (and the vector
\* store, if it was created) is still at the service.
C17_NoRollbackOfUploads ==
    ( /\ Failed(AssemblyOps) # {}
      /\ \E i \in Ops({"files.upload"}) : calls[i] = Call("files.upload", CorpusFileId, TRUE) )
    => /\ pc = "crashed"
       /\ Ops(CleanupOps) = {}
       /\ CorpusFileId \in svc_files
       /\ (\E i \in Ops({"vector_stores.create"}) : calls[i].ok)
             => VectorStoreId \in svc_vector_stores

C17_Witness ==
    /\ pc = "crashed"
    /\ LastCall = Call("files.upload", FontFileId, FALSE)
    /\ CorpusFileId \in svc_files
    /\ VectorStoreId \in svc_vector_stores

\* C18: when initialize() has returned (None, None), no agent and no thread
\* it created is left at the service.
C18_NoSessionLeftAfterFailedInitialize ==
    (pc \in {"main_check", "exit_init_failed"} /\ agent = None /\ thread = None) =>
        svc_agents = {} /\ svc_threads = {}

\* C19: in a post_message call the run is opened right after the user
\* message was appended, and on the same thread; after a failed append the
\* call opens no run.
C19_MessageBeforeRun ==
    /\ \A j \in Ops({"runs.stream"}) :
          /\ j > 1
          /\ calls[j - 1].op = "messages.create"
          /\ calls[j - 1].ok
    /\ \A j \in Failed({"messages.create"}) :
          j < Len(calls) => calls[j + 1].op \notin {"runs.stream", "until_done"}
    /\ Len(runs) <= Len(CreatedMessages)
    /\ \A i \in 1..Len(runs) : \A k \in 1..Len(messages) :
          runs[i].thread = messages[k].thread /\ runs[i].thread = thread
    /\ pc \in {"runs_stream", "until_done"} =>
          \E k \in 1..Len(messages) :
             /\ messages[k] = [role |-> "user", content |-> prompt, thread |-> thread]
             /\ \A l \in (k + 1)..Len(messages) : messages[l].role # "user"

C19_Witness ==
    /\ pc = "loop"
    /\ LastCall = Call("messages.create", <<"h", "i">>, FALSE)
    /\ Len(runs) = 1

Terminated == pc \in {"exit_init_failed", "exit_saved", "exit_cleaned", "crashed"}

\* The three ways to end: initialize() gave main() no session (it returned
\* (None, None) or raised), the session was saved, cleanup() was run (to its
\* end, or until one of its calls raised).
InitializationFailed == agent = None /\ thread = None
SessionSaved == pc = "exit_saved"
CleanupRun == Ops({"files.list"}) # {}

\* C20: with every call returning or raising and a sentinel supplied sooner
\* or later, the program terminates, and when it has, exactly one of the
\* three holds: initialization failed, the session was saved, cleanup ran.
C20_TerminatesOneOfThreeWays ==
    /\ <>Terminated
    /\ [](Terminated =>
            /\ InitializationFailed \/ SessionSaved \/ CleanupRun
            /\ ~(InitializationFailed /\ SessionSaved)
            /\ ~(InitializationFailed /\ CleanupRun)
            /\ ~(SessionSaved /\ CleanupRun))

C20_Witness ==
    /\ pc = "exit_saved"
    /\ Len(runs) = 1
    /\ runs[1].status = "failed"

====
